---- MODULE Spec2Model ----
(***************************************************************************)
(* Model of server/block_processor.py: the Prefetcher task, the            *)
(* BlockProcessor task, the flush protocol and the startup recovery,       *)
(* together with the on-disk state (LevelDB keys and the flat files) that  *)
(* survives a crash of the process.                                        *)
(*                                                                         *)
(* The two asyncio tasks are cooperative: a task runs from one await to    *)
(* the next without interruption by the other task.  A crash of the        *)
(* process can happen between any two durable writes.                      *)
(***************************************************************************)
EXTENDS Integers, Sequences, FiniteSets, TLC

\* ------------------------------------------------------------------ bounds

\* The daemon's chain grows up to this height (blocks 0..MaxHeight).
MaxHeight == 2
\* flush() is called only while flush_count is below this.
MaxFlush == 3
\* The integer limits given to the queries are 0..MaxLimit.
MaxLimit == 3
\* len(block) of every raw block the daemon serves.
BlockBytes == 4000000

\* --------------------------------------------------------------- constants

\* Prefetcher.target_cache_size
target_cache_size == 10 * 1024 * 1024
\* the cap of _prefetch on the number of blocks of one request
MaxFetch == 4000
\* the floor of _prefill_count
MinPrefill == 10
\* the length of the recent_sizes window
RecentWindow == 50
\* cached_height() before the first daemon.height() call (Python None)
NoHeight == -2

\* ------------------------------------------------------- the daemon's data

Aids == {"A", "B"}
\* an output script from which the coin profile derives no address
NoAid == "none"

Variants == {"good", "fork", "bad"}

\* A raw block is identified by its height and its variant: "good" is the
\* block of the main chain, "fork" a block built on another parent, "bad" a
\* block whose second transaction spends an outpoint that does not exist.
BlockIds == {<<h, v>> : h \in 0..MaxHeight, v \in Variants}

ZeroHash == <<-1, "zero">>

\* coin.GENESIS_HASH of the coin profiles a process can be started with
GenesisHashes == {"genesis", "other-genesis"}

AidAt(h) == IF h % 2 = 0 THEN "A" ELSE "B"

Coinbase(h) ==
    [hash |-> <<h, 0>>, is_coinbase |-> TRUE, inputs |-> <<>>,
     outputs |-> <<AidAt(h)>>]

\* spends the coinbase output of the previous block
SpendPrev(h) ==
    [hash |-> <<h, 1>>, is_coinbase |-> FALSE,
     inputs |-> << <<<<h - 1, 0>>, 0>> >>,
     outputs |-> <<AidAt(h + 1), NoAid>>]

\* spends the first output of the previous transaction of the same block
SpendSame(h) ==
    [hash |-> <<h, 2>>, is_coinbase |-> FALSE,
     inputs |-> << <<<<h, 1>>, 0>> >>,
     outputs |-> <<AidAt(h)>>]

\* spends an outpoint no transaction created
SpendMissing(h) ==
    [hash |-> <<h, 1>>, is_coinbase |-> FALSE,
     inputs |-> << <<<<h, 9>>, 0>> >>,
     outputs |-> <<AidAt(h)>>]

\* coin.read_block: the transactions of a raw block
BlockTxs(b) ==
    LET h == b[1] IN
    CASE b[2] = "fork" -> <<Coinbase(h)>>
      [] b[2] = "bad"  -> <<Coinbase(h), SpendMissing(h)>>
      [] OTHER -> IF h = 0 THEN <<Coinbase(h)>>
                  ELSE IF h % 2 = 1 THEN <<Coinbase(h), SpendPrev(h)>>
                  ELSE <<Coinbase(h), SpendPrev(h), SpendSame(h)>>

\* coin.header_hashes: (prev_hash, header_hash) of a block's header
HeaderHash(b) == b

PrevHash(b) ==
    IF b[2] = "fork" THEN <<b[1] - 1, "fork">>
    ELSE IF b[1] = 0 THEN ZeroHash ELSE <<b[1] - 1, "good">>

\* ------------------------------------------------------------ small helpers

RECURSIVE SumSeq(_)
SumSeq(s) == IF s = <<>> THEN 0 ELSE Head(s) + SumSeq(Tail(s))

Min(a, b) == IF a < b THEN a ELSE b
Max(a, b) == IF a > b THEN a ELSE b

Range(s) == {s[i] : i \in 1..Len(s)}

\* the last n elements of s dropped of its first `excess` (s[excess:])
DropFirst(s, excess) == SubSeq(s, excess + 1, Len(s))

\* the first n elements of s (a file truncated to n records)
Truncate(s, n) == SubSeq(s, 1, Min(n, Len(s)))

\* the number of transactions of the chain that ends with the block `tip`
RECURSIVE ChainTxCount(_)
ChainTxCount(t) ==
    IF t[1] < 0 THEN 0
    ELSE Len(BlockTxs(t)) + ChainTxCount(PrevHash(t))

\* ------------------------------------------------------------------- state

VARIABLES
    coin_genesis,       \* coin.GENESIS_HASH of the running process, "none"
                        \* while no process has read its environment
    \* the daemon (an external collaborator)
    daemon_height,      \* the height of the daemon's chain when last asked
    cached_height,      \* daemon.cached_height(): the last height() answer
    \* Prefetcher
    pf_pc,              \* the await the Prefetcher task is suspended at
    pf_args,            \* (first, count) of the block_hex_hashes request
    pf_hashes,          \* the hashes answered, awaiting raw_blocks
    queue,              \* asyncio.Queue of (blocks, total_size)
    queue_size,
    fetched_height,
    recent_sizes,
    \* BlockProcessor (memory)
    bp_pc,              \* the position of the Processor task
    blocks,             \* the blocks of the batch not processed yet
    height,
    tx_count,
    tip,
    db_height,
    db_tx_count,
    flush_count,
    utxo_flush_count,
    history,            \* hash168 -> sequence of tx numbers
    history_size,
    utxo_cache,         \* UTXOCache.cache: outputs created, not yet flushed
    utxo_deleted,       \* UTXOCache: DB outputs spent, deletion not yet flushed
    fs_headers,         \* FSCache: headers appended, not yet written
    fs_tx_hashes,       \* FSCache: tx hashes appended, not yet written
    flush_utxos,        \* the argument of the flush() in progress
    flush_step,         \* the position inside flush() (index into FlushOrder)
    flush_ret,          \* where flush() returns to
    del_keys,           \* delete_excess_history: keys still to delete
    raised,             \* the exception that ended the Processor loop
    \* the disk
    kvState,            \* the record under key b'state'
    kvHist,             \* the H keys: (hash168, flush_id, tx numbers)
    kvUtxo,             \* the unspent outputs in the DB: (outpoint, hash168, tx_num)
    fileHeaders,        \* the headers file
    fileTxHashes,       \* the tx-hashes file
    \* observers
    start_height,       \* the height the running Prefetcher was created with
    delivered,          \* the heights of the blocks get_blocks() returned
    processed,          \* the blocks process_block has returned from normally
    err_pending,        \* a DaemonError was raised and no sleep has followed
    histAtUtxoFlush,    \* the H keys on disk when UTXOs were last flushed
    found,              \* what the last open_db found on disk when it began
    snap,               \* the DB left by the last completed open_db, if unchanged
    snapPrev,           \* snap as it was when the last open_db began
    final_flush         \* the flush in progress is the one of start()'s finally

daemonVars == <<daemon_height, cached_height>>
pfVars == <<pf_pc, pf_args, pf_hashes, queue, queue_size, fetched_height,
            recent_sizes>>
chainVars == <<height, tx_count, tip, db_height, db_tx_count, flush_count,
               utxo_flush_count>>
cacheVars == <<history, history_size, utxo_cache, utxo_deleted, fs_headers,
               fs_tx_hashes>>
flushVars == <<flush_utxos, flush_step, flush_ret, final_flush>>
kvVars == <<kvState, kvHist, kvUtxo>>
fileVars == <<fileHeaders, fileTxHashes>>
obsVars == <<start_height, delivered, processed, err_pending,
             histAtUtxoFlush, found, snap, snapPrev>>

vars == <<coin_genesis, daemonVars, pfVars, bp_pc, blocks, chainVars, cacheVars, flushVars,
          del_keys, raised, kvVars, fileVars, obsVars>>

NothingFound ==
    [fc |-> 0, ufc |-> 0, hist |-> {}, utxo |-> {}, resumed |-> FALSE]
NoSnap == [kv |-> <<>>, diff |-> -1, resumed |-> FALSE]
EmptyHistory == [a \in Aids |-> <<>>]

\* ------------------------------------------------------ chain-state record

\* flush_state: the record written under b'state'
StateRecord(h, txc, t, fc, ufc) ==
    [genesis |-> coin_genesis, height |-> h, tx_count |-> txc, tip |-> t,
     flush_count |-> fc, utxo_flush_count |-> ufc]

\* ------------------------------------------------------------ construction

Init ==
    /\ coin_genesis = "genesis"
    /\ daemon_height = 0
    /\ cached_height = NoHeight
    /\ pf_pc = "loop"
    /\ pf_args = <<>>
    /\ pf_hashes = <<>>
    /\ queue = <<>>
    /\ queue_size = 0
    /\ fetched_height = -1
    /\ recent_sizes = <<0>>
    /\ bp_pc = "get"
    /\ blocks = <<>>
    /\ height = -1
    /\ tx_count = 0
    /\ tip = ZeroHash
    /\ db_height = -1
    /\ db_tx_count = 0
    /\ flush_count = 0
    /\ utxo_flush_count = 0
    /\ history = EmptyHistory
    /\ history_size = 0
    /\ utxo_cache = {}
    /\ utxo_deleted = {}
    /\ fs_headers = <<>>
    /\ fs_tx_hashes = <<>>
    /\ flush_utxos = FALSE
    /\ flush_step = 0
    /\ flush_ret = "none"
    /\ final_flush = FALSE
    /\ del_keys = <<>>
    /\ raised = "none"
    /\ kvState = StateRecord(-1, 0, ZeroHash, 0, 0)
    /\ kvHist = {}
    /\ kvUtxo = {}
    /\ fileHeaders = <<>>
    /\ fileTxHashes = <<>>
    /\ start_height = -1
    /\ delivered = <<>>
    /\ processed = <<>>
    /\ err_pending = FALSE
    /\ histAtUtxoFlush = {}
    /\ found = NothingFound
    /\ snap = NoSnap
    /\ snapPrev = NoSnap

\* --------------------------------------------------------------- UTXOCache

\* UTXOCache.add_many: the cache with the outputs of a transaction added;
\* an output without an address is skipped
AddMany(cache, tx_hash, tx_num, outputs) ==
    cache \cup {<<<<tx_hash, i - 1>>, outputs[i], tx_num>> :
                   i \in {j \in 1..Len(outputs) : outputs[j] # NoAid}}

\* UTXOCache.add_many: the hash168s it returns
AddManyAids(outputs) == Range(outputs) \ {NoAid}

\* UTXOCache.spend, first lookup: the created-and-unflushed outputs
CacheHit(cache, prevout) == {e \in cache : e[1] = prevout}

\* UTXOCache.spend, second and third lookup: the outputs in the DB
DbHit(kv, deleted, prevout) == {e \in kv \ deleted : e[1] = prevout}

\* the inputs of a transaction spent in order; s.ok is FALSE when an
\* outpoint cannot be resolved, and the inputs after it are not spent
RECURSIVE SpendAll(_, _, _)
SpendAll(s, inputs, kv) ==
    IF inputs = <<>> THEN s
    ELSE LET prevout == Head(inputs)
             inCache == CacheHit(s.cache, prevout)
             inDb == DbHit(kv, s.deleted, prevout)
         IN  IF inCache # {}
             THEN LET e == CHOOSE x \in inCache : TRUE
                  IN  SpendAll([s EXCEPT !.cache = @ \ {e},
                                         !.aids = @ \cup {e[2]}],
                               Tail(inputs), kv)
             ELSE IF inDb # {}
             THEN LET e == CHOOSE x \in inDb : TRUE
                  IN  SpendAll([s EXCEPT !.deleted = @ \cup {e},
                                         !.aids = @ \cup {e[2]}],
                               Tail(inputs), kv)
             ELSE [s EXCEPT !.ok = FALSE]

\* UTXOCache.flush: the DB's unspent outputs after the batch
UtxoFlushed(kv, cache, deleted) == (kv \ deleted) \cup cache

\* ---------------------------------------------------------------- process_tx

\* A process_tx that reads tx_count after the increment.
C15_TxNumAfterIncrement(txc) == txc + 1

\* the ordinal process_tx gives the outputs and the history entries
TxNum(txc) == txc

\* A process_tx that leaves tx_count as it was.
C12_TxCountKept(txc) == txc

\* process_tx: tx_count after the transaction
NextTxCount(txc) == txc + 1

\* A process_tx that puts the ordinal at the front of the list.
C13_HistoryPrepended(hist, aids, tx_num) ==
    [a \in Aids |-> IF a \in aids THEN <<tx_num>> \o hist[a] ELSE hist[a]]

\* history[hash168].append(tx_num) for every hash168 touched
HistoryAppended(hist, aids, tx_num) ==
    [a \in Aids |-> IF a \in aids THEN Append(hist[a], tx_num) ELSE hist[a]]

\* process_tx on the state st = [cache, deleted, history, history_size,
\* tx_count, ok]; when a spend fails the exception leaves the outputs
\* added and the earlier inputs spent, and nothing else changed
process_tx(st, tx, kv) ==
    LET tx_num == TxNum(st.tx_count)
        s1 == [cache |-> AddMany(st.cache, tx.hash, tx_num, tx.outputs),
               deleted |-> st.deleted,
               aids |-> AddManyAids(tx.outputs),
               ok |-> TRUE]
        s2 == IF tx.is_coinbase THEN s1 ELSE SpendAll(s1, tx.inputs, kv)
    IN  IF s2.ok
        THEN [cache |-> s2.cache,
              deleted |-> s2.deleted,
              history |-> HistoryAppended(st.history, s2.aids, tx_num),
              history_size |-> st.history_size + Cardinality(s2.aids),
              tx_count |-> NextTxCount(st.tx_count),
              ok |-> TRUE]
        ELSE [st EXCEPT !.cache = s2.cache, !.deleted = s2.deleted,
                        !.ok = FALSE]

\* the loop of process_block over the transactions of the block
RECURSIVE ProcessTxs(_, _, _)
ProcessTxs(st, txs, kv) ==
    IF txs = <<>> \/ ~st.ok THEN st
    ELSE ProcessTxs(process_tx(st, Head(txs), kv), Tail(txs), kv)

\* ------------------------------------------------------------------- flush

\* A flush that commits the DB batch before it writes the files.
C7_BatchBeforeFiles == <<"batch", "fs", "state">>

\* flush(): the FS cache is flushed, then the DB batch is committed, then
\* the state record is put once more
FlushOrder == <<"fs", "batch", "state">>

\* A flush_history that counts the flush twice.
C17_FlushCountedTwice(fc) == fc + 2

\* flush_history: the new flush_count
NextFlushCount(fc) == fc + 1

\* flush_history: the records put, one per hash168 that has history
HistoryRecords(hist, flush_id) ==
    {<<a, flush_id, hist[a]>> : a \in {x \in Aids : hist[x] # <<>>}}

\* batch.put of history records: a put replaces the value of its key
BatchPut(kv, recs) ==
    {k \in kv : ~ \E r \in recs : r[1] = k[1] /\ r[2] = k[2]} \cup recs

\* A flush_utxos that records a count one ahead of flush_count.
C1_UtxoFlushCountAhead(fc) == fc + 1

\* flush_utxos: the new utxo_flush_count
UtxoFlushCount(fc) == fc

\* FSCache.flush: a file with the buffered records appended
FileAppended(file, buffer) == file \o buffer

\* ---------------------------------------------------------------- recovery

\* A scan that also takes the keys of the last UTXO flush (>= for >).
C2_ExcessKeysInclusive(kv, ufc) == {k \in kv : k[2] >= ufc}

\* delete_excess_history: the keys whose flush_id is above utxo_flush_count
ExcessKeys(kv, ufc) == {k \in kv : k[2] > ufc}

\* db.iterator(prefix=b'H') yields the keys in ascending order
KeyLess(k1, k2) ==
    \/ k1[1] = "A" /\ k2[1] = "B"
    \/ k1[1] = k2[1] /\ k1[2] < k2[2]

RECURSIVE SortedKeys(_)
SortedKeys(ks) ==
    IF ks = {} THEN <<>>
    ELSE LET m == CHOOSE k \in ks : \A o \in ks \ {k} : KeyLess(k, o)
         IN  <<m>> \o SortedKeys(ks \ {m})

\* A recovery that lowers flush_count to utxo_flush_count instead.
C3_CountsLowered(fc, ufc) == <<ufc, ufc>>

\* A recovery that moves utxo_flush_count up by one flush only.
C8_CountsOneStep(fc, ufc) == <<fc, ufc + 1>>

\* delete_excess_history: the counters it leaves, (flush_count,
\* utxo_flush_count)
RecoveredCounts(fc, ufc) == <<fc, fc>>

\* ----------------------------------------------------------------- queries

\* Python's None as the value of a limit argument
None == NoHeight

\* resolve_limit, for a limit that is None or an integer >= 0 (any other
\* value fails its assert)
resolve_limit(limit) == IF limit = None THEN -1 ELSE limit

\* the loop of a query generator over the entries it iterates: before each
\* yield it returns when limit is 0, after each yield limit goes down by 1
RECURSIVE Yielded(_, _)
Yielded(entries, limit) ==
    IF entries = <<>> \/ limit = 0 THEN <<>>
    ELSE <<Head(entries)>> \o Yielded(Tail(entries), limit - 1)

\* the values of a sequence of H keys, one after the other
RECURSIVE Flattened(_)
Flattened(keys) ==
    IF keys = <<>> THEN <<>> ELSE Head(keys)[3] \o Flattened(Tail(keys))

\* get_history: the tx numbers of the H keys of hash168, which
\* db.iterator(prefix=b'H' + hash168) gives in ascending order of flush_id
HistoryEntries(kv, hash168) ==
    Flattened(SortedKeys({k \in kv : k[1] = hash168}))

\* get_history: the tx numbers for which the generator reaches its yield
HistoryTxNums(kv, hash168, limit) ==
    Yielded(HistoryEntries(kv, hash168), resolve_limit(limit))

\* FSCache.get_tx_hash: record tx_num of the tx hashes written or buffered,
\* with the height of its block (a tx hash of the model begins with it)
get_tx_hash(hashes, tx_num) ==
    <<hashes[tx_num + 1], hashes[tx_num + 1][1]>>

\* get_history: the (tx_hash, height) pairs yielded
get_history(kv, hashes, hash168, limit) ==
    LET nums == HistoryTxNums(kv, hash168, limit)
    IN  [i \in 1..Len(nums) |-> get_tx_hash(hashes, nums[i])]

\* the names bound in the namespace of the module block_processor: its
\* imports, its function and its classes
ModuleGlobals ==
    {"array", "ast", "asyncio", "struct", "time", "defaultdict", "partial",
     "plyvel", "FSCache", "UTXOCache", "DaemonError", "hash_to_str",
     "LoggedClass", "formatted_time", "ChainError", "Prefetcher",
     "BlockProcessor"}

\* the order of two u keys of one hash168: by tx hash, then by tx_pos
UtxoLess(e1, e2) ==
    \/ e1[1][1][1] < e2[1][1][1]
    \/ e1[1][1][1] = e2[1][1][1] /\ e1[1][1][2] < e2[1][1][2]
    \/ e1[1][1] = e2[1][1] /\ e1[1][2] < e2[1][2]

RECURSIVE SortedUtxos(_)
SortedUtxos(es) ==
    IF es = {} THEN <<>>
    ELSE LET e == CHOOSE x \in es : \A o \in es \ {x} : UtxoLess(x, o)
         IN  <<e>> \o SortedUtxos(es \ {e})

\* get_utxos: the records of the u keys of hash168, which
\* db.iterator(prefix=b'u' + hash168) gives in key order
UtxoEntries(kv, hash168) == SortedUtxos({e \in kv : e[2] = hash168})

\* get_utxos, run to its end: what it yielded and the exception that ended
\* it, if any.  The first entry reached with limit # 0 evaluates
\* UTXO(tx_num, tx_pos, tx_hash, height, value), a name looked up in the
\* module's namespace; the amounts are left out.
get_utxos(kv, hashes, hash168, limit) ==
    LET entries == Yielded(UtxoEntries(kv, hash168), resolve_limit(limit))
    IN  IF entries = <<>>
        THEN [yielded |-> <<>>, raised |-> "none"]
        ELSE IF "UTXO" \notin ModuleGlobals
        THEN [yielded |-> <<>>, raised |-> "NameError"]
        ELSE [yielded |->
                 [i \in 1..Len(entries) |->
                    <<entries[i][3], entries[i][1][2]>>
                       \o get_tx_hash(hashes, entries[i][3])],
              raised |-> "none"]

\* ------------------------------------------------------------- Prefetcher

\* The Prefetcher runs only while the Processor task is suspended at an
\* await (or has ended): asyncio tasks are cooperative.
ProcessorSuspended == bp_pc \in {"get", "yield", "done"}

bpFrame == <<coin_genesis, bp_pc, blocks, chainVars, cacheVars, flushVars, del_keys, raised,
             kvVars, fileVars>>

\* _prefill_count
PrefillCount(room, sizes) ==
    LET ave_size == SumSeq(sizes) \div Len(sizes)
        count == IF ave_size # 0 THEN room \div ave_size ELSE 0
    IN  Max(count, MinPrefill)

\* A _prefetch that asks for every block the daemon has.
C19_FetchCountUncapped(dh, fh, sizes) == dh - fh

\* _prefetch: the count of block hashes requested
FetchCount(dh, fh, sizes) ==
    Min(Min(dh - fh, MaxFetch), PrefillCount(target_cache_size, sizes))

\* daemon.block_hex_hashes(first, count): the hashes of the blocks at
\* heights first .. first + count - 1, here named by their heights
BlockHexHashes(first, count) ==
    [i \in 1..Max(count, 0) |-> first + i - 1]

\* start(): the test of the inner loop; a _prefetch begins with a
\* daemon.height() request, otherwise the task sleeps
PfLoop ==
    /\ ProcessorSuspended
    /\ pf_pc = "loop"
    /\ pf_pc' = IF queue_size < target_cache_size THEN "height" ELSE "sleep"
    /\ UNCHANGED <<daemonVars, pf_args, pf_hashes, queue, queue_size,
                   fetched_height, recent_sizes, bpFrame, obsVars>>

\* asyncio.sleep(2) returns
PfSleep ==
    /\ ProcessorSuspended
    /\ pf_pc = "sleep"
    /\ pf_pc' = "loop"
    /\ err_pending' = FALSE
    /\ UNCHANGED <<daemonVars, pf_args, pf_hashes, queue, queue_size,
                   fetched_height, recent_sizes, bpFrame, start_height, delivered, processed, histAtUtxoFlush, found, snap,
                   snapPrev>>

\* daemon.height() answers, with the height of a chain that may have grown
\* since it was last asked; block_hex_hashes(first, count) is requested
PfHeight ==
    /\ ProcessorSuspended
    /\ pf_pc = "height"
    /\ \E dh \in daemon_height..MaxHeight :
         /\ daemon_height' = dh
         /\ cached_height' = dh
         /\ pf_args' = <<fetched_height + 1,
                         FetchCount(dh, fetched_height, recent_sizes)>>
    /\ pf_pc' = "hashes"
    /\ UNCHANGED <<pf_hashes, queue, queue_size,
                   fetched_height, recent_sizes, bpFrame, obsVars>>

\* block_hex_hashes answers no hash: _prefetch returns
PfNoHashes ==
    /\ ProcessorSuspended
    /\ pf_pc = "hashes"
    /\ BlockHexHashes(pf_args[1], pf_args[2]) = <<>>
    /\ pf_pc' = "loop"
    /\ pf_args' = <<>>
    /\ UNCHANGED <<daemonVars, pf_hashes, queue, queue_size, fetched_height,
                   recent_sizes, bpFrame, obsVars>>

\* block_hex_hashes answers; raw_blocks(hashes) is requested
PfHashes ==
    /\ ProcessorSuspended
    /\ pf_pc = "hashes"
    /\ BlockHexHashes(pf_args[1], pf_args[2]) # <<>>
    /\ pf_hashes' = BlockHexHashes(pf_args[1], pf_args[2])
    /\ pf_args' = <<>>
    /\ pf_pc' = "raw"
    /\ UNCHANGED <<daemonVars, queue, queue_size, fetched_height,
                   recent_sizes, bpFrame, obsVars>>

\* the recent_sizes window after a fetch
RecentSizes(old, sizes) ==
    LET all == old \o sizes
        excess == Len(all) - RecentWindow
    IN  IF excess > 0 THEN DropFirst(all, excess) ELSE all

\* A _prefetch that counts one block less than it enqueued.
C9_FetchedHeightShort(fh, n) == fh + n - 1

\* fetched_height after a batch of n blocks was enqueued
FetchedHeight(fh, n) == fh + n

\* raw_blocks answers: the batch is enqueued
PfRawBlocks ==
    /\ ProcessorSuspended
    /\ pf_pc = "raw"
    /\ \E vs \in [1..Len(pf_hashes) -> Variants] :
         LET got == [i \in 1..Len(pf_hashes) |-> <<pf_hashes[i], vs[i]>>]
             sizes == [i \in 1..Len(got) |-> BlockBytes]
             total_size == SumSeq(sizes)
         IN  /\ queue' = Append(queue, <<got, total_size>>)
             /\ queue_size' = queue_size + total_size
             /\ fetched_height' = FetchedHeight(fetched_height, Len(got))
             /\ recent_sizes' = RecentSizes(recent_sizes, sizes)
    /\ pf_hashes' = <<>>
    /\ pf_pc' = "loop"
    /\ UNCHANGED <<daemonVars, pf_args, bpFrame, obsVars>>

\* A start() whose except clause falls through to the sleep.
C10_ErrorThenSleep == "sleep"

\* where start() continues after it caught a DaemonError
AfterDaemonError == "loop"

\* a daemon call raises DaemonError: start() logs it and loops
PfDaemonError ==
    /\ ProcessorSuspended
    /\ pf_pc \in {"height", "hashes", "raw"}
    /\ pf_pc' = AfterDaemonError
    /\ pf_args' = <<>>
    /\ pf_hashes' = <<>>
    /\ err_pending' = TRUE
    /\ UNCHANGED <<daemon_height, cached_height, queue, queue_size,
                   fetched_height, recent_sizes, bpFrame, start_height, delivered, processed, histAtUtxoFlush, found, snap,
                   snapPrev>>

\* ------------------------------------------------------------- Processor

pfFrame == <<daemonVars, pfVars>>

\* A get_blocks that forgets to take the batch off queue_size.
C20_QueueSizeKept(qs, total_size) == qs

\* get_blocks(): queue_size after a batch of total_size bytes was taken
QueueSizeAfterGet(qs, total_size) == qs - total_size

\* get_blocks(): one queue entry is taken
GetBlocks ==
    /\ bp_pc = "get"
    /\ queue # <<>>
    /\ LET entry == Head(queue)
       IN  /\ queue' = Tail(queue)
           /\ queue_size' = QueueSizeAfterGet(queue_size, entry[2])
           /\ blocks' = entry[1]
           /\ delivered' = delivered \o [i \in 1..Len(entry[1]) |-> entry[1][i][1]]
    /\ bp_pc' = "block"
    /\ UNCHANGED <<coin_genesis, daemonVars, pf_pc, pf_args, pf_hashes,
                   fetched_height, recent_sizes, chainVars, cacheVars, flushVars, del_keys,
                   raised, kvVars, fileVars, start_height, processed,
                   err_pending, histAtUtxoFlush, found, snap, snapPrev>>

\* FSCache.process_block: the header and the tx hashes of the block are
\* appended to the in-memory buffers
FsProcessBlock(b) ==
    /\ fs_headers' = Append(fs_headers, b)
    /\ fs_tx_hashes' = fs_tx_hashes \o
                         [i \in 1..Len(BlockTxs(b)) |-> BlockTxs(b)[i].hash]

\* the transactions of block b applied to the caches
TxsApplied(b) ==
    ProcessTxs([cache |-> utxo_cache, deleted |-> utxo_deleted,
                history |-> history, history_size |-> history_size,
                tx_count |-> tx_count, ok |-> TRUE],
               BlockTxs(b), kvUtxo)

\* process_block of a block that does not build on the tip: ChainError
ProcessBlockReorg ==
    /\ bp_pc = "block"
    /\ LET b == Head(blocks)
       IN  /\ FsProcessBlock(b)
           /\ PrevHash(b) # tip
    /\ raised' = "ChainError"
    /\ bp_pc' = "finally"
    /\ UNCHANGED <<coin_genesis, pfFrame, blocks, chainVars, history, history_size,
                   utxo_cache, utxo_deleted, flushVars, del_keys, kvVars,
                   fileVars, obsVars>>

\* process_block of a block one of whose transactions spends an outpoint
\* that cannot be resolved: the exception of spend() ends process_block
ProcessBlockFail ==
    /\ bp_pc = "block"
    /\ LET b == Head(blocks)
           st == TxsApplied(b)
       IN  /\ FsProcessBlock(b)
           /\ PrevHash(b) = tip
           /\ ~st.ok
           /\ tip' = HeaderHash(b)
           /\ height' = height + 1
           /\ tx_count' = st.tx_count
           /\ utxo_cache' = st.cache
           /\ utxo_deleted' = st.deleted
           /\ history' = st.history
           /\ history_size' = st.history_size
    /\ raised' = "CorruptIndex"
    /\ bp_pc' = "finally"
    /\ UNCHANGED <<coin_genesis, pfFrame, blocks, db_height, db_tx_count, flush_count,
                   utxo_flush_count, flushVars, del_keys, kvVars, fileVars,
                   obsVars>>

\* process_block of a block that is applied whole; the periodic cache check
\* then flushes nothing, the history, or the history and the UTXOs
ProcessBlock ==
    /\ bp_pc = "block"
    /\ LET b == Head(blocks)
           st == TxsApplied(b)
       IN  /\ FsProcessBlock(b)
           /\ PrevHash(b) = tip
           /\ st.ok
           /\ tip' = HeaderHash(b)
           /\ height' = height + 1
           /\ tx_count' = st.tx_count
           /\ utxo_cache' = st.cache
           /\ utxo_deleted' = st.deleted
           /\ history' = st.history
           /\ history_size' = st.history_size
    /\ blocks' = Tail(blocks)
    /\ \E check \in {"none", "history", "utxos"} :
         IF check = "none" \/ flush_count >= MaxFlush
         THEN /\ bp_pc' = "yield"
              /\ UNCHANGED flushVars
         ELSE /\ bp_pc' = "flush"
              /\ flush_utxos' = (check = "utxos")
              /\ flush_step' = 1
              /\ flush_ret' = "yield"
              /\ final_flush' = FALSE
    /\ processed' = Append(processed, Head(blocks))
    /\ UNCHANGED <<coin_genesis, pfFrame, db_height, db_tx_count, flush_count,
                   utxo_flush_count, del_keys, raised, kvVars, fileVars,
                   start_height, delivered, err_pending, histAtUtxoFlush,
                   found, snap, snapPrev>>

\* start() resumes after asyncio.sleep(0) with blocks left in the batch
NextBlock ==
    /\ bp_pc = "yield"
    /\ blocks # <<>>
    /\ bp_pc' = "block"
    /\ UNCHANGED <<coin_genesis, pfFrame, blocks, chainVars, cacheVars, flushVars,
                   del_keys, raised, kvVars, fileVars, obsVars>>

\* the batch is done and height is not the daemon's cached height
AwaitBlocks ==
    /\ bp_pc = "yield"
    /\ blocks = <<>>
    /\ height # cached_height
    /\ bp_pc' = "get"
    /\ UNCHANGED <<coin_genesis, pfFrame, blocks, chainVars, cacheVars, flushVars,
                   del_keys, raised, kvVars, fileVars, obsVars>>

\* the batch is done and height is the daemon's cached height: the log
\* call of the caught-up branch reads the undefined name self_height, and
\* the NameError leaves the loop before the branch's flush(True)
CaughtUp ==
    /\ bp_pc = "yield"
    /\ blocks = <<>>
    /\ height = cached_height
    /\ raised' = "NameError"
    /\ bp_pc' = "finally"
    /\ UNCHANGED <<coin_genesis, pfFrame, blocks, chainVars, cacheVars, flushVars,
                   del_keys, kvVars, fileVars, obsVars>>

\* the task is cancelled while it is suspended at an await
Cancel ==
    /\ bp_pc \in {"get", "yield"}
    /\ raised' = "CancelledError"
    /\ bp_pc' = "finally"
    /\ UNCHANGED <<coin_genesis, pfFrame, blocks, chainVars, cacheVars, flushVars,
                   del_keys, kvVars, fileVars, obsVars>>

\* A finally clause that flushes the history only.
C11_FinalFlushHistoryOnly == FALSE

\* the argument of the flush() of the finally clause of start()
FinalFlushUtxos == TRUE

\* the finally clause of start() when the daemon's height is known
FinallyFlush ==
    /\ bp_pc = "finally"
    /\ cached_height # NoHeight
    /\ flush_count < MaxFlush
    /\ bp_pc' = "flush"
    /\ flush_utxos' = FinalFlushUtxos
    /\ flush_step' = 1
    /\ flush_ret' = "done"
    /\ final_flush' = TRUE
    /\ UNCHANGED <<coin_genesis, pfFrame, blocks, chainVars, cacheVars, del_keys, raised,
                   kvVars, fileVars, obsVars>>

\* the finally clause of start() when the daemon's height is not known
FinallySkip ==
    /\ bp_pc = "finally"
    /\ cached_height = NoHeight
    /\ bp_pc' = "done"
    /\ UNCHANGED <<coin_genesis, pfFrame, blocks, chainVars, cacheVars, flushVars,
                   del_keys, raised, kvVars, fileVars, obsVars>>

\* ------------------------------------------------------------ flush steps

\* the step of flush() that follows, or its return
FlushAdvance ==
    IF flush_step < Len(FlushOrder)
    THEN /\ flush_step' = flush_step + 1
         /\ bp_pc' = "flush"
         /\ UNCHANGED <<flush_utxos, flush_ret, final_flush>>
    ELSE /\ flush_step' = 0
         /\ bp_pc' = flush_ret
         /\ flush_ret' = "none"
         /\ UNCHANGED <<flush_utxos, final_flush>>

\* fs_cache.flush(height, tx_count): the buffers are written to the files
FlushFs ==
    /\ bp_pc = "flush"
    /\ FlushOrder[flush_step] = "fs"
    /\ fileHeaders' = FileAppended(fileHeaders, fs_headers)
    /\ fileTxHashes' = FileAppended(fileTxHashes, fs_tx_hashes)
    /\ fs_headers' = <<>>
    /\ fs_tx_hashes' = <<>>
    /\ FlushAdvance
    /\ UNCHANGED <<coin_genesis, pfFrame, blocks, chainVars, history, history_size,
                   utxo_cache, utxo_deleted, del_keys, raised, kvVars,
                   obsVars>>

\* the write batch of flush(): flush_history, flush_utxos when asked,
\* flush_state, committed as one transaction
FlushBatch ==
    /\ bp_pc = "flush"
    /\ FlushOrder[flush_step] = "batch"
    /\ LET fc == NextFlushCount(flush_count)
           ufc == IF flush_utxos THEN UtxoFlushCount(fc) ELSE utxo_flush_count
           dbh == IF flush_utxos THEN height ELSE db_height
           dbt == IF flush_utxos THEN tx_count ELSE db_tx_count
       IN  /\ flush_count' = fc
           /\ utxo_flush_count' = ufc
           /\ db_height' = dbh
           /\ db_tx_count' = dbt
           /\ kvHist' = BatchPut(kvHist, HistoryRecords(history, fc))
           /\ kvUtxo' = IF flush_utxos
                        THEN UtxoFlushed(kvUtxo, utxo_cache, utxo_deleted)
                        ELSE kvUtxo
           /\ kvState' = StateRecord(dbh, dbt, tip, fc, ufc)
           /\ histAtUtxoFlush' = IF flush_utxos THEN kvHist'
                                 ELSE histAtUtxoFlush
    /\ history' = EmptyHistory
    /\ history_size' = 0
    /\ utxo_cache' = IF flush_utxos THEN {} ELSE utxo_cache
    /\ utxo_deleted' = IF flush_utxos THEN {} ELSE utxo_deleted
    /\ snap' = NoSnap
    /\ FlushAdvance
    /\ UNCHANGED <<coin_genesis, pfFrame, blocks, height, tx_count, tip, fs_headers,
                   fs_tx_hashes, del_keys, raised, fileVars, start_height, delivered, processed, err_pending, found, snapPrev>>

\* flush_state(self.db) after the batch: the state record is put again.
\* The statistics logged after it write nothing and are left out, as is
\* wall_time.
FlushState ==
    /\ bp_pc = "flush"
    /\ FlushOrder[flush_step] = "state"
    /\ kvState' = StateRecord(db_height, db_tx_count, tip, flush_count,
                              utxo_flush_count)
    /\ snap' = NoSnap
    /\ FlushAdvance
    /\ UNCHANGED <<coin_genesis, pfFrame, blocks, chainVars, cacheVars, del_keys, raised,
                   kvHist, kvUtxo, fileVars, start_height,
                   delivered, processed, err_pending, histAtUtxoFlush, found, snapPrev>>

\* ---------------------------------------------------- crash and start-up

\* The process dies: memory is lost, the disk stays.  The variables of the
\* memory take the values __init__ gives them before open_db; the coin
\* profile is that of the environment the next process is started with.
Crash ==
    /\ bp_pc # "boot"
    /\ bp_pc' = "boot"
    /\ coin_genesis' = "none"
    /\ cached_height' = NoHeight
    /\ pf_pc' = "loop"
    /\ pf_args' = <<>>
    /\ pf_hashes' = <<>>
    /\ queue' = <<>>
    /\ queue_size' = 0
    /\ fetched_height' = -1
    /\ recent_sizes' = <<0>>
    /\ blocks' = <<>>
    /\ height' = -1
    /\ tx_count' = 0
    /\ tip' = ZeroHash
    /\ db_height' = -1
    /\ db_tx_count' = 0
    /\ flush_count' = 0
    /\ utxo_flush_count' = 0
    /\ history' = EmptyHistory
    /\ history_size' = 0
    /\ utxo_cache' = {}
    /\ utxo_deleted' = {}
    /\ fs_headers' = <<>>
    /\ fs_tx_hashes' = <<>>
    /\ flush_utxos' = FALSE
    /\ flush_step' = 0
    /\ flush_ret' = "none"
    /\ final_flush' = FALSE
    /\ del_keys' = <<>>
    /\ raised' = "none"
    /\ delivered' = <<>>
    /\ processed' = <<>>
    /\ err_pending' = FALSE
    /\ start_height' = -1
    /\ found' = [found EXCEPT !.resumed = (bp_pc = "recover")]
    /\ UNCHANGED <<daemon_height, kvVars, fileVars, histAtUtxoFlush, snap,
                   snapPrev>>

\* read_state: the exception of its raise statement, whose message is
\* formatted from state['genesis_hash'] before ChainError is constructed
WrongGenesisError(state) ==
    IF "genesis_hash" \in DOMAIN state THEN "ChainError" ELSE "KeyError"

\* open_db of an existing DB whose state record has another genesis hash
\* than the coin profile: read_state raises and __init__ does not return
OpenDbWrongGenesis ==
    /\ bp_pc = "boot"
    /\ \E g \in GenesisHashes :
         /\ coin_genesis' = g
         /\ kvState.genesis # g
    /\ raised' = WrongGenesisError(kvState)
    /\ bp_pc' = "failed"
    /\ UNCHANGED <<pfFrame, blocks, chainVars, cacheVars,
                   flushVars, del_keys, kvVars, fileVars, obsVars>>

\* open_db of an existing DB: read_state, then the scan of
\* delete_excess_history for the H keys to delete
OpenDb ==
    /\ bp_pc = "boot"
    /\ \E g \in GenesisHashes :
         /\ coin_genesis' = g
         /\ kvState.genesis = g
    /\ kvState.flush_count >= kvState.utxo_flush_count
    /\ db_height' = kvState.height
    /\ db_tx_count' = kvState.tx_count
    /\ tip' = kvState.tip
    /\ flush_count' = kvState.flush_count
    /\ utxo_flush_count' = kvState.utxo_flush_count
    /\ found' = [fc |-> kvState.flush_count,
                 ufc |-> kvState.utxo_flush_count,
                 hist |-> kvHist, utxo |-> kvUtxo,
                 resumed |-> found.resumed]
    /\ snapPrev' = snap
    /\ IF kvState.flush_count = kvState.utxo_flush_count
       THEN /\ bp_pc' = "opened"
            /\ del_keys' = <<>>
            /\ snap' = [kv |-> <<kvState, kvHist, kvUtxo>>, diff |-> 0,
                        resumed |-> FALSE]
       ELSE /\ bp_pc' = "recover"
            /\ del_keys' = SortedKeys(ExcessKeys(kvHist,
                                                 kvState.utxo_flush_count))
            /\ snap' = NoSnap
    /\ UNCHANGED <<pfFrame, blocks, height, tx_count, cacheVars, flushVars,
                   raised, kvVars, fileVars, start_height,
                   delivered, processed, err_pending, histAtUtxoFlush>>

\* delete_excess_history: db.delete(key) of the next key, written at once
RecoverDelete ==
    /\ bp_pc = "recover"
    /\ del_keys # <<>>
    /\ kvHist' = kvHist \ {Head(del_keys)}
    /\ del_keys' = Tail(del_keys)
    /\ UNCHANGED <<coin_genesis, pfFrame, bp_pc, blocks, chainVars, cacheVars, flushVars,
                   raised, kvState, kvUtxo, fileVars, obsVars>>

\* delete_excess_history: the batch that holds the state record commits
RecoverCommit ==
    /\ bp_pc = "recover"
    /\ del_keys = <<>>
    /\ LET c == RecoveredCounts(flush_count, utxo_flush_count)
       IN  /\ flush_count' = c[1]
           /\ utxo_flush_count' = c[2]
           /\ kvState' = StateRecord(db_height, db_tx_count, tip, c[1], c[2])
    /\ snap' = [kv |-> <<kvState', kvHist, kvUtxo>>,
                diff |-> found.fc - found.ufc, resumed |-> found.resumed]
    /\ bp_pc' = "opened"
    /\ UNCHANGED <<coin_genesis, pfFrame, blocks, height, tx_count, tip, db_height,
                   db_tx_count, cacheVars, flushVars, del_keys, raised,
                   kvHist, kvUtxo, fileVars, start_height,
                   delivered, processed, err_pending, histAtUtxoFlush, found, snapPrev>>

\* the rest of __init__: tx_count and height, the FSCache (which cuts the
\* files to the lengths the state implies) and the Prefetcher
FinishInit ==
    /\ bp_pc = "opened"
    /\ tx_count' = db_tx_count
    /\ height' = db_height
    /\ fileHeaders' = Truncate(fileHeaders, db_height + 1)
    /\ fileTxHashes' = Truncate(fileTxHashes, db_tx_count)
    /\ fetched_height' = db_height
    /\ start_height' = db_height
    /\ bp_pc' = "get"
    /\ found' = NothingFound
    /\ snapPrev' = NoSnap
    /\ UNCHANGED <<coin_genesis, daemonVars, pf_pc, pf_args, pf_hashes, queue,
                   queue_size, recent_sizes, blocks, tip, db_height, db_tx_count,
                   flush_count, utxo_flush_count, cacheVars, flushVars,
                   del_keys, raised, kvVars, delivered, processed, err_pending,
                   histAtUtxoFlush, snap>>

\* ------------------------------------------------------------ specification

Next ==
    \/ PfLoop
    \/ PfSleep
    \/ PfHeight
    \/ PfNoHashes
    \/ PfHashes
    \/ PfRawBlocks
    \/ PfDaemonError
    \/ GetBlocks
    \/ ProcessBlockReorg
    \/ ProcessBlockFail
    \/ ProcessBlock
    \/ NextBlock
    \/ AwaitBlocks
    \/ CaughtUp
    \/ Cancel
    \/ FinallyFlush
    \/ FinallySkip
    \/ FlushFs
    \/ FlushBatch
    \/ FlushState
    \/ Crash
    \/ OpenDb
    \/ OpenDbWrongGenesis
    \/ RecoverDelete
    \/ RecoverCommit
    \/ FinishInit

Spec == Init /\ [][Next]_vars

\* ------------------------------------------------------------------ claims

\* C1: in every reachable state, in memory and in the state record on disk
\* (what a restart after a crash at any point of flush() or of the startup
\* recovery reads), flush_count >= utxo_flush_count >= 0.
C1_FlushCountsOrdered ==
    /\ flush_count >= utxo_flush_count
    /\ utxo_flush_count >= 0
    /\ kvState.flush_count >= kvState.utxo_flush_count
    /\ kvState.utxo_flush_count >= 0

\* C1 witness: a crash left history-only flushes on top of a UTXO flush and
\* the startup recovery is under way.
C1_Witness ==
    /\ bp_pc = "recover"
    /\ kvState.flush_count > kvState.utxo_flush_count
    /\ kvState.utxo_flush_count > 0

\* C2: when open_db has run the recovery (the state record it read had
\* flush_count = k+n > utxo_flush_count = k), the H keys left are exactly
\* the keys it found whose flush_id is at most k, no other key of the DB was
\* touched, and the history on disk is the history as of the last UTXO flush.
C2_RecoveryDeletesExcess ==
    (bp_pc = "opened" /\ found.fc > found.ufc) =>
        /\ kvHist = {k \in found.hist : k[2] <= found.ufc}
        /\ kvUtxo = found.utxo
        /\ kvHist = histAtUtxoFlush

\* C2 witness: a recovery after two history-only flushes that followed a
\* UTXO flush, which deleted some keys and kept others.
C2_Witness ==
    /\ bp_pc = "opened"
    /\ found.fc >= found.ufc + 2
    /\ found.ufc >= 1
    /\ kvHist # found.hist
    /\ kvHist # {}

\* C3 (as stated): after a recovery that found flush_count > utxo_flush_count
\* = k, flush_count is k in memory and in the state record, and
\* utxo_flush_count is still k.
C3_Original ==
    (bp_pc = "opened" /\ found.fc > found.ufc) =>
        /\ flush_count = found.ufc
        /\ utxo_flush_count = found.ufc
        /\ kvState.flush_count = found.ufc
        /\ kvState.utxo_flush_count = found.ufc

\* C3 (amended): after a recovery that found flush_count = k+1 >
\* utxo_flush_count = k, utxo_flush_count is k+1 (utxo_flush_count <-
\* flush_count) in memory and in the rewritten state record, flush_count is
\* unchanged, and height, tx_count and tip of the record are as they were.
C3_RecoveryRaisesUtxoFlushCount ==
    (bp_pc = "opened" /\ found.fc > found.ufc) =>
        /\ flush_count = found.fc
        /\ utxo_flush_count = found.fc
        /\ kvState.flush_count = found.fc
        /\ kvState.utxo_flush_count = found.fc
        /\ kvState.height = db_height
        /\ kvState.tx_count = db_tx_count
        /\ kvState.tip = tip

\* C3 witness: a recovery that found flush_count = utxo_flush_count + 1.
C3_Witness ==
    /\ bp_pc = "opened"
    /\ found.fc = found.ufc + 1
    /\ found.ufc >= 1

\* C4 (as stated): in every state record on disk, tip is the hash of the
\* block at the recorded height, or the zero hash when the height is -1.
C4_Original ==
    /\ kvState.tip[1] = kvState.height
    /\ (kvState.height = -1 => kvState.tip = ZeroHash)

\* C5 (as stated): when the Processor loop ended with a ChainError or with
\* an unresolvable outpoint and its finally clause flushed, the state record
\* holds whole blocks only: tx_count is the number of transactions of the
\* blocks up to the recorded tip, and the tip is the block at the recorded
\* height.
C5_Original ==
    (bp_pc = "done" /\ final_flush /\ raised \in {"ChainError", "CorruptIndex"}) =>
        /\ kvState.tx_count = ChainTxCount(kvState.tip)
        /\ kvState.tip[1] = kvState.height

\* C6 (as stated): a process_block that signals the chain-reorg error
\* leaves height, tx_count, tip and every cache unchanged.
C6_Original ==
    [][ProcessBlockReorg =>
         UNCHANGED <<height, tx_count, tip, fs_headers, fs_tx_hashes,
                     utxo_cache, utxo_deleted, history, history_size>>]_vars

\* C7: in every state (the process may crash in any), the files hold at
\* least the records the state record on disk implies, headers for heights
\* 0..height and tx hashes for tx_count transactions, and no H key on disk
\* is of a flush the state record does not count.
C7_FilesCoverState ==
    /\ Len(fileHeaders) >= kvState.height + 1
    /\ Len(fileTxHashes) >= kvState.tx_count
    /\ \A k \in kvHist : k[2] <= kvState.flush_count

\* C7 witness: a crash inside flush(), after the files were written and
\* before the batch committed.
C7_Witness ==
    /\ bp_pc = "boot"
    /\ Len(fileHeaders) > kvState.height + 1
    /\ Len(fileTxHashes) > kvState.tx_count

\* C8: an open_db that runs on the DB a completed open_db left (nothing
\* was flushed in between) leaves the state record and every key as they
\* were.
C8_RecoveryIdempotent ==
    (bp_pc = "opened" /\ snapPrev # NoSnap) =>
        <<kvState, kvHist, kvUtxo>> = snapPrev.kv

\* C8 witness: the second open_db after a recovery that was interrupted by
\* a crash, run again and completed, and that had history flushes to undo.
C8_Witness ==
    /\ bp_pc = "opened"
    /\ snapPrev # NoSnap
    /\ snapPrev.diff > 0
    /\ snapPrev.resumed
    /\ kvHist # {}

\* the heights of the blocks in the queue, oldest first
RECURSIVE QueuedHeights(_)
QueuedHeights(q) ==
    IF q = <<>> THEN <<>>
    ELSE [i \in 1..Len(Head(q)[1]) |-> Head(q)[1][i][1]]
           \o QueuedHeights(Tail(q))

\* C9: the blocks get_blocks() has returned, followed by the blocks in the
\* queue, are the blocks at heights start_height+1 .. fetched_height in
\* ascending order, none skipped or repeated; and a DaemonError leaves
\* fetched_height, the queue and queue_size unchanged.
C9_BlocksInOrder ==
    /\ [](LET seen == delivered \o QueuedHeights(queue)
          IN  /\ Len(seen) = fetched_height - start_height
              /\ \A i \in 1..Len(seen) : seen[i] = start_height + i)
    /\ [][PfDaemonError =>
            UNCHANGED <<fetched_height, queue, queue_size>>]_vars

\* C9 witness: after a restart a batch was returned and another is in the
\* queue, and a DaemonError was raised on the way.
C9_Witness ==
    /\ start_height >= 0
    /\ Len(delivered) >= 1
    /\ queue # <<>>
    /\ err_pending

PfAlive == {"loop", "height", "hashes", "raw", "sleep"}

\* C10 (as stated): the Prefetcher never ends, and after a DaemonError it
\* has no daemon request in flight until it has slept.
C10_Original ==
    /\ pf_pc \in PfAlive
    /\ (err_pending => pf_pc \notin {"height", "hashes", "raw"})

\* C10 (amended): a DaemonError never ends the Prefetcher; it goes back to
\* the test of its inner loop, from which the next daemon request follows
\* at once when queue_size < target_cache_size; it sleeps only from that
\* test, and only when queue_size >= target_cache_size.
C10_ErrorRetriesWithoutSleep ==
    [][/\ pf_pc' \in PfAlive
       /\ (pf_pc' = "sleep" /\ pf_pc # "sleep") =>
             (pf_pc = "loop" /\ queue_size >= target_cache_size)
       /\ (pf_pc = "loop" /\ pf_pc' # "loop" /\ err_pending
             /\ queue_size < target_cache_size) => pf_pc' = "height"]_vars

\* C10 witness: a daemon request in flight after a DaemonError, with no
\* sleep in between.
C10_Witness ==
    /\ err_pending
    /\ pf_pc = "height"
    /\ queue_size < target_cache_size

\* C11: when the Processor loop is left (by a cancellation or an exception)
\* and the daemon's cached height is known, the finally clause calls
\* flush(True) and nothing after it; when that flush has returned, the
\* height and tx_count of the state record are height and tx_count of the
\* memory, flush_count = utxo_flush_count and the history map is empty.
\* When the cached height is not known the clause flushes nothing.
C11_FinalFlush ==
    /\ []((bp_pc = "done" /\ final_flush) =>
            /\ kvState.height = height
            /\ kvState.tx_count = tx_count
            /\ flush_count = utxo_flush_count
            /\ kvState.flush_count = flush_count
            /\ kvState.utxo_flush_count = flush_count
            /\ history = EmptyHistory
            /\ history_size = 0)
    /\ [][(bp_pc = "finally" /\ bp_pc' \notin {"finally", "boot"}) =>
            IF cached_height # NoHeight
            THEN /\ bp_pc' = "flush"
                 /\ flush_utxos'
                 /\ flush_ret' = "done"
            ELSE /\ bp_pc' = "done"
                 /\ ~final_flush'
                 /\ UNCHANGED <<chainVars, cacheVars, kvVars, fileVars>>]_vars
    /\ [][bp_pc = "done" => bp_pc' \in {"done", "boot"}]_vars

\* C11 witness: the task was cancelled with blocks processed since the last
\* UTXO flush, and the flush of the finally clause has returned.
C11_Witness ==
    /\ bp_pc = "done"
    /\ final_flush
    /\ raised = "CancelledError"
    /\ height >= 1
    /\ flush_count >= 2

\* the number of transactions of each block of a sequence of blocks
BlockTxCounts(bs) == [i \in 1..Len(bs) |-> Len(BlockTxs(bs[i]))]

\* C12: in a run that began with height = -1 and tx_count = 0, while every
\* process_block call has returned normally or raised before it changed
\* anything, tx_count is the sum of the numbers of transactions of the
\* blocks processed and height is the number of blocks processed minus 1;
\* no step of a flush changes height or tx_count.
C12_CountsAreSums ==
    /\ []((start_height = -1 /\ raised # "CorruptIndex") =>
            /\ height = Len(processed) - 1
            /\ tx_count = SumSeq(BlockTxCounts(processed)))
    /\ [][(bp_pc = "flush" /\ bp_pc' # "boot") =>
            UNCHANGED <<height, tx_count>>]_vars

\* C12 witness: three blocks of one, two and three transactions processed
\* from a fresh DB, with flushes in between.
C12_Witness ==
    /\ start_height = -1
    /\ Len(processed) = 3
    /\ tx_count = 6
    /\ flush_count >= 2
    /\ raised = "none"

\* the transactions of the chain that ends with the block t, in order: the
\* transaction at position n + 1 is the one with ordinal n
RECURSIVE ChainTxs(_)
ChainTxs(t) ==
    IF t[1] < 0 THEN <<>> ELSE ChainTxs(PrevHash(t)) \o BlockTxs(t)

\* the AIDs of the outputs that the inputs of tx spend, looked up in the
\* transactions txs that created them
InputAids(txs, tx) ==
    {txs[j].outputs[tx.inputs[i][2] + 1] :
        <<i, j>> \in {<<i, j>> \in (1..Len(tx.inputs)) \X (1..Len(txs)) :
                          /\ ~tx.is_coinbase
                          /\ txs[j].hash = tx.inputs[i][1]
                          /\ tx.inputs[i][2] + 1 <= Len(txs[j].outputs)}}

\* the transaction with ordinal n of txs created an output to aid or spent
\* an output of aid
Touches(txs, n, aid) ==
    /\ n + 1 <= Len(txs)
    /\ aid \in Range(txs[n + 1].outputs) \cup InputAids(txs, txs[n + 1])

\* for every AID, get_history(AID, None) goes through tx numbers in
\* strictly ascending order over all the flush records of the AID, each of
\* them the ordinal of a transaction of the recorded chain that created an
\* output to the AID or spent one of its outputs, and what is yielded for
\* it is the hash of that transaction
HistoryInOrder ==
    LET chain == ChainTxs(kvState.tip)
    IN  \A a \in Aids :
          LET nums == HistoryTxNums(kvHist, a, None)
              yielded == get_history(kvHist, fileTxHashes, a, None)
          IN  /\ \A i \in 1..(Len(nums) - 1) : nums[i] < nums[i + 1]
              /\ \A i \in 1..Len(nums) :
                     /\ Touches(chain, nums[i], a)
                     /\ yielded[i][1] = chain[nums[i] + 1].hash

\* the positions of the Processor right after a step that wrote to the DB
\* or to the files: start-up before open_db, a flush under way, the
\* recovery of open_db, and the wait for blocks that follows __init__
C13_AfterWrite == {"boot", "flush", "recover", "opened", "get"}

\* C13: for every AID, in every state of the DB, get_history(AID, None)
\* yields transaction ordinals in strictly ascending order, without
\* duplicates, across all flush records of the AID, and every ordinal
\* belongs to a transaction that created an output to the AID or spent an
\* output of the AID.  It is so at every position that follows a write,
\* and a step to any other position leaves what get_history reads (the H
\* keys, the state record, the file of tx hashes) as it was.
C13_HistoryAscending ==
    /\ [](bp_pc \in C13_AfterWrite => HistoryInOrder)
    /\ [][bp_pc' \notin C13_AfterWrite =>
            UNCHANGED <<kvHist, kvState, fileTxHashes>>]_vars

\* C13 witness: the history of B lies in two flush records or more and
\* ends with the ordinal of a transaction that only spent an output of B.
C13_Witness ==
    /\ HistoryTxNums(kvHist, "B", None) = <<1, 4, 5>>
    /\ Cardinality({k \in kvHist : k[1] = "B"}) >= 2
    /\ "B" \notin Range(ChainTxs(kvState.tip)[6].outputs)

\* C14 (as stated): when open_db finds a state record whose genesis hash is
\* not the coin profile's, it fails with ChainError, no field of the chain
\* state adopted and the DB as it was.
C14_Original ==
    [][(bp_pc = "boot" /\ bp_pc' # "boot"
          /\ kvState.genesis # coin_genesis') =>
         /\ raised' = "ChainError"
         /\ bp_pc' = "failed"
         /\ UNCHANGED <<chainVars, kvVars, fileVars>>]_vars

\* the caches and tx_count as process_block hands them to process_tx
CachesNow ==
    [cache |-> utxo_cache, deleted |-> utxo_deleted, history |-> history,
     history_size |-> history_size, tx_count |-> tx_count, ok |-> TRUE]

\* a transaction that spends its own first output
SelfSpend ==
    [hash |-> <<9, 9>>, is_coinbase |-> FALSE,
     inputs |-> << <<<<9, 9>>, 0>> >>, outputs |-> <<"A", "B">>]

\* for every transaction of the block that process_block is about to apply,
\* with n the tx_count before it: process_tx leaves tx_count = n + 1; the outputs
\* it adds to the UTXO cache are those of the transaction, with ordinal n;
\* every AID the transaction touches (an output to it, or an input that
\* spends an output of it) has n appended to its history exactly once and
\* no other AID has anything appended; an input that spends an output of an
\* earlier transaction of the same block takes it from the cache and not
\* from the DB.  The outputs are added before the inputs are spent: a
\* transaction that spends its own output finds it.
ProcessTxEffects ==
    /\ PrevHash(Head(blocks)) = tip =>
         LET txs == BlockTxs(Head(blocks))
             chain == ChainTxs(Head(blocks))
         IN  \A k \in 1..Len(txs) :
               LET pre == ProcessTxs(CachesNow, SubSeq(txs, 1, k - 1), kvUtxo)
                   tx == txs[k]
                   post == process_tx(pre, tx, kvUtxo)
                   n == pre.tx_count
                   touched == (Range(tx.outputs) \ {NoAid})
                                 \cup InputAids(chain, tx)
               IN  (pre.ok /\ post.ok) =>
                     /\ post.tx_count = n + 1
                     /\ \A i \in 1..Len(tx.outputs) :
                           tx.outputs[i] # NoAid =>
                             <<<<tx.hash, i - 1>>, tx.outputs[i], n>>
                                \in post.cache
                     /\ \A e \in post.cache \ pre.cache :
                           e[1][1] = tx.hash /\ e[3] = n
                     /\ \A a \in Aids :
                           post.history[a] =
                             IF a \in touched
                             THEN Append(pre.history[a], n)
                             ELSE pre.history[a]
                     /\ post.history_size
                          = pre.history_size + Cardinality(touched)
                     /\ \A i \in 1..Len(tx.inputs) :
                           (\E j \in 1..(k - 1) :
                               txs[j].hash = tx.inputs[i][1]) =>
                             /\ post.deleted = pre.deleted
                             /\ \E e \in pre.cache : e[1] = tx.inputs[i]
                             /\ ~ \E e \in post.cache : e[1] = tx.inputs[i]
    /\ LET post == process_tx(CachesNow, SelfSpend, kvUtxo)
       IN  /\ post.ok
           /\ post.cache = utxo_cache \cup {<<<<<<9, 9>>, 1>>, "B", tx_count>>}
           /\ post.deleted = utxo_deleted
           /\ post.history =
                 [a \in Aids |-> Append(history[a], tx_count)]
           /\ post.tx_count = tx_count + 1

\* C15: whenever process_block runs, process_tx adds all the outputs of a
\* transaction to the UTXO cache before it spends any input, uses the same
\* ordinal (tx_count before the increment) for the outputs and for every
\* history append, appends it once per touched AID, and adds exactly 1 to
\* tx_count; so an output of an earlier transaction of the block is spent
\* by a later one from the cache.
C15_ProcessTxOrdinal ==
    [][(bp_pc = "block" /\ bp_pc' # "boot") =>
         /\ ProcessTxEffects
         /\ raised' = "none" =>
              tx_count' = tx_count + Len(BlockTxs(Head(blocks)))]_vars

\* C15 witness: process_block is about to apply the block of height 2,
\* whose third transaction spends an output of its second and whose second
\* spends an output that is in the DB.
C15_Witness ==
    /\ bp_pc = "block"
    /\ Head(blocks) = <<2, "good">>
    /\ PrevHash(Head(blocks)) = tip
    /\ TxsApplied(Head(blocks)).ok
    /\ \E e \in kvUtxo : e[1] = <<<<1, 0>>, 0>>

\* the limit arguments of the queries
Limits == {None} \cup 0..MaxLimit

\* the number of entries a query with this limit is to yield out of total
Capped(limit, total) == IF limit = None THEN total ELSE Min(limit, total)

\* C16 (as stated): for every AID and every limit that is None or an
\* integer >= 0, get_history yields the first min(limit, total) of its
\* entries, all of them when limit is None, and so does get_utxos.
C16_Original ==
    \A a \in Aids : \A limit \in Limits :
        LET hist == HistoryEntries(kvHist, a)
            utxos == UtxoEntries(kvUtxo, a)
            got == get_utxos(kvUtxo, fileTxHashes, a, limit)
        IN  /\ HistoryTxNums(kvHist, a, limit)
                 = SubSeq(hist, 1, Capped(limit, Len(hist)))
            /\ Len(get_history(kvHist, fileTxHashes, a, limit))
                 = Capped(limit, Len(hist))
            /\ got.raised = "none"
            /\ Len(got.yielded) = Capped(limit, Len(utxos))

\* C17: of the steps of a flush, the commit of the batch adds exactly 1 to
\* flush_count and empties the history map (history_size = 0), and the
\* other steps leave both as they are.  In a flush(False) no step changes
\* utxo_flush_count, db_height, db_tx_count, the UTXO cache, the unspent
\* outputs in the DB, or height and tx_count of the state record.  In a
\* flush(True) the commit sets utxo_flush_count to the new flush_count and
\* (db_height, db_tx_count) to (height, tx_count), and the state record
\* holds them.
C17_FlushEffects ==
    [][(bp_pc = "flush" /\ bp_pc' # "boot") =>
         /\ IF FlushOrder[flush_step] = "batch"
            THEN /\ flush_count' = flush_count + 1
                 /\ history' = EmptyHistory
                 /\ history_size' = 0
                 /\ kvState'.flush_count = flush_count + 1
            ELSE UNCHANGED <<flush_count, history, history_size>>
         /\ ~flush_utxos =>
              /\ UNCHANGED <<utxo_flush_count, db_height, db_tx_count,
                             utxo_cache, utxo_deleted, kvUtxo>>
              /\ kvState'.height = kvState.height
              /\ kvState'.tx_count = kvState.tx_count
              /\ kvState'.utxo_flush_count = kvState.utxo_flush_count
         /\ (flush_utxos /\ FlushOrder[flush_step] = "batch") =>
              /\ utxo_flush_count' = flush_count'
              /\ db_height' = height
              /\ db_tx_count' = tx_count
              /\ kvState'.height = height
              /\ kvState'.tx_count = tx_count
              /\ kvState'.utxo_flush_count = flush_count'
              /\ utxo_cache' = {}]_vars

\* C17 witness: the batch of a flush(False) has committed, after an earlier
\* flush(True) and with blocks processed since.
C17_Witness ==
    /\ bp_pc = "flush"
    /\ ~flush_utxos
    /\ flush_step = 3
    /\ utxo_flush_count >= 1
    /\ flush_count > utxo_flush_count
    /\ db_height >= 0
    /\ height > db_height
    /\ kvState.height = db_height

\* C18 (as stated): when the batch is done and height is the daemon's
\* cached height, the Processor (unless it is cancelled there) goes on with
\* flush(True), from which it returns to its loop to await the next batch;
\* its loop is never left with a NameError.
C18_Original ==
    /\ [][(bp_pc = "yield" /\ blocks = <<>> /\ height = cached_height
             /\ bp_pc' \notin {"yield", "boot"}
             /\ raised' # "CancelledError") =>
            /\ bp_pc' = "flush"
            /\ flush_utxos'
            /\ flush_ret' = "get"]_vars
    /\ [](raised # "NameError")

\* the cap of the claim on the blocks of one request: min(dh - fh, 4000,
\* max(10, B / average of the recent sizes)), the quotient taken as 0 when
\* the average is 0
RequestCap(dh, fh, sizes) ==
    LET ave == SumSeq(sizes) \div Len(sizes)
        fill == IF ave = 0 THEN 0 ELSE target_cache_size \div ave
    IN  Min(Min(dh - fh, 4000), Max(10, fill))

\* windows of recent sizes and numbers of blocks the daemon is ahead by,
\* chosen so that each of the three terms of the cap is the least one
SizeWindows ==
    {<<0>>, <<1000, 1000, 1000>>, <<BlockBytes, BlockBytes>>,
     <<0, 500000, 500000>>}

Aheads == {0, 1, 11, 4001}

QueuedTotals(q) == [i \in 1..Len(q) |-> q[i][2]]

\* C20: in every state, whatever the interleaving of the two tasks,
\* queue_size is the sum of the byte totals recorded with the entries in
\* the queue, it is not negative, and fetched_height is the height the
\* Prefetcher started with plus the number of blocks enqueued so far (those
\* get_blocks() has returned and those still in the queue).
C20_QueueAccounting ==
    /\ queue_size = SumSeq(QueuedTotals(queue))
    /\ queue_size >= 0
    /\ fetched_height
         = start_height + Len(delivered) + Len(QueuedHeights(queue))

\* C20 witness: the Processor is between two blocks of a batch it took,
\* another batch is in the queue and the Prefetcher has a request for more
\* in flight.
C20_Witness ==
    /\ bp_pc = "yield"
    /\ blocks # <<>>
    /\ Len(delivered) >= 2
    /\ Len(queue) >= 1
    /\ pf_pc = "hashes"
    /\ queue_size > 0

====
